---- MODULE Spec2Model ----
(***************************************************************************)
(* Model of usb-moded's mode activation engine                             *)
(* (src/src/usb_moded-modesetting.c) and of the mode descriptor loader     *)
(* (src/src/usb_moded-dyn-config.c).                                       *)
(*                                                                         *)
(* Every exported operation (activate = modesetting_set_dynamic_mode,      *)
(* deactivate = modesetting_unset_dynamic_mode, cleanup =                  *)
(* modesetting_cleanup, the glib timeout callback                          *)
(* modesetting_network_retry) is one action.  The engine is single         *)
(* threaded, so an action runs the whole handler; what the handler did is  *)
(* kept in `trace` (the external calls it made, in order, with their       *)
(* results) so that ordering properties are state predicates.              *)
(*                                                                         *)
(* The results of the external collaborators (system(), open()/write(),    *)
(* network_up(), appsync, configfs) are inputs of an action, drawn from    *)
(* small sets: the record `env`.                                           *)
(***************************************************************************)
EXTENDS Integers, Sequences, FiniteSets, TLC

VARIABLES
    confdir,          \* the mode configuration directory: the files g_dir_read_name() hands out
    modelist,         \* the mode list modelist_load() returned last
    backend,          \* which of configfs_in_use()/android_in_use()/modules_in_use() holds
    mounts,           \* config_find_mounts(), split at ","; <<>> when it returns NULL
    mode_data,        \* usbmoded_get_usb_mode_data(): a mode name, or NULL
    usb_mode,         \* usbmoded_get_usb_mode(): name of the current mode
    delayed_network,  \* static guint delayed_network
    timers,           \* glib main loop: the pending timeout sources [id, data]
    next_id,          \* glib main loop: the id the next g_timeout_add_seconds() returns
    removed,          \* ids that were passed to g_source_remove()
    tracked_values,   \* static GHashTable *tracked_values: path -> text (NULL: no entry)
    files,            \* live content of the sysfs attribute files: path -> text (NULL: unreadable)
    op,               \* the operation that ran last
    trace,            \* the external calls the last operation made, in order
    ret,              \* what the last operation returned
    round             \* history: whether the last operations were an activate, or an
                      \* activate and then a deactivate, and the tracker as it was
                      \* when that activate was called

vars == << confdir, modelist, backend, mounts, mode_data, usb_mode, delayed_network, timers, next_id,
           removed, tracked_values, files, op, trace, ret, round >>

(***************************************************************************)
(* Bounds of the model                                                     *)
(***************************************************************************)
\* most mount points in the configured list
MaxMounts == 2
\* most timeout sources the main loop hands out in one behaviour
MaxSources == 2
\* most files in the mode configuration directory
MaxFiles == 2

(***************************************************************************)
(* Program constants                                                       *)
(***************************************************************************)
\* "if(try != 3)": the retry counter value at which unmounting gives up
UMOUNT_RETRIES == 3

NULL == "NULL"

MODULE_NONE == "none"
MODULE_MASS_STORAGE == "g_mass_storage"
MODULE_FILE_STORAGE == "g_file_storage"
MODE_MASS_STORAGE == "mass_storage"
MODE_CHARGING == "charging_only"
MODE_CHARGING_FALLBACK == "charging_only_fallback"
MODE_UNDEFINED == "undefined"

USB_PRE_UNMOUNT == "pre-unmount"
DATA_IN_USE == "data_in_use"
UMOUNT_ERROR == "umount_error"
RE_MOUNT_FAILED == "mount_failed"
MODE_SETTING_FAILED == "qtn_usb_mode_setting_failed"

ANDROID0_ENABLE == "/sys/class/android_usb/android0/enable"
ANDROID0_FUNCTIONS == "/sys/class/android_usb/android0/functions"
ANDROID_LUN_FILE == "/sys/class/android_usb/f_mass_storage/lun/file"
ANDROID_IDPRODUCT == "/sys/class/android_usb/android0/idProduct"
ANDROID_EXTRA == "/sys/class/android_usb/android0/f_rndis/wceis"
ANDROID_EXTRA2 == "/sys/class/android_usb/android0/iSerial"

MountNames == << "/media/a", "/media/b", "/media/c", "/media/d" >>
GadgetLunFile == << "/sys/devices/platform/musb_hdrc/gadget/gadget-lun0/file",
                    "/sys/devices/platform/musb_hdrc/gadget/gadget-lun1/file",
                    "/sys/devices/platform/musb_hdrc/gadget/gadget-lun2/file",
                    "/sys/devices/platform/musb_hdrc/gadget/gadget-lun3/file" >>

Backends == { "configfs", "android", "modules", "none" }

(***************************************************************************)
(* Mode descriptors (struct mode_list_elem), as the loader hands them to   *)
(* the engine.  A pointer to a descriptor is modelled by the mode's name.  *)
(***************************************************************************)
BaseMode ==
    [ mode_name |-> NULL, mode_module |-> MODULE_NONE,
      appsync |-> 0, mass_storage |-> 0,
      network |-> 0, network_interface |-> NULL,
      nat |-> 0, dhcp_server |-> 0,
      sysfs_path |-> NULL, sysfs_value |-> NULL, sysfs_reset_value |-> NULL,
      android_extra_sysfs_path |-> NULL, android_extra_sysfs_value |-> NULL,
      android_extra_sysfs_path2 |-> NULL, android_extra_sysfs_value2 |-> NULL,
      idProduct |-> NULL, idVendorOverride |-> NULL,
      connman_tethering |-> NULL,
      softconnect_path |-> ANDROID0_ENABLE,
      softconnect |-> "1", softconnect_disconnect |-> "0" ]

ModeTable ==
    { [ BaseMode EXCEPT !.mode_name = "host_mode",
          !.sysfs_path = ANDROID_IDPRODUCT, !.sysfs_value = "0x1" ],
      [ BaseMode EXCEPT !.mode_name = "diag_mode",
          !.sysfs_path = ANDROID0_FUNCTIONS, !.sysfs_value = "diag",
          !.sysfs_reset_value = "none",
          !.android_extra_sysfs_path = ANDROID_EXTRA,
          !.android_extra_sysfs_value = "1",
          !.idProduct = "0AFE" ],
      [ BaseMode EXCEPT !.mode_name = "mtp_mode",
          !.appsync = 1,
          !.sysfs_path = ANDROID0_FUNCTIONS, !.sysfs_value = "mtp",
          !.idProduct = "0A05" ],
      [ BaseMode EXCEPT !.mode_name = "developer_mode",
          !.appsync = 1,
          !.network = 1, !.network_interface = "rndis0",
          !.dhcp_server = 1,
          !.sysfs_path = ANDROID0_FUNCTIONS, !.sysfs_value = "rndis",
          !.sysfs_reset_value = "none",
          !.android_extra_sysfs_path = ANDROID_EXTRA,
          !.android_extra_sysfs_value = "1",
          !.idProduct = "0A02" ],
      [ BaseMode EXCEPT !.mode_name = "connection_sharing",
          !.network = 1, !.network_interface = "usb0",
          !.nat = 1,
          !.sysfs_path = ANDROID0_FUNCTIONS, !.sysfs_value = "rndis",
          !.android_extra_sysfs_path = ANDROID_EXTRA,
          !.android_extra_sysfs_value = "1",
          !.android_extra_sysfs_path2 = ANDROID_EXTRA2,
          !.android_extra_sysfs_value2 = "share",
          !.idProduct = "0A02", !.idVendorOverride = "18D1",
          !.connman_tethering = "gadget" ],
      [ BaseMode EXCEPT !.mode_name = MODE_MASS_STORAGE,
          !.mass_storage = 1 ],
      [ BaseMode EXCEPT !.mode_name = "ums_mode",
          !.mode_module = MODULE_MASS_STORAGE,
          !.mass_storage = 1 ] }

ModeNames == { d.mode_name : d \in ModeTable }

\* dereference of a struct mode_list_elem pointer
Mode(name) == CHOOSE d \in ModeTable : d.mode_name = name

(***************************************************************************)
(* The descriptor loader (usb_moded-dyn-config.c).  A configuration file   *)
(* is modelled by what g_key_file hands out for it: whether the file can   *)
(* be loaded at all, and the value of each key (NULL or 0 when the key is  *)
(* missing).                                                               *)
(***************************************************************************)
\* calloc(1, sizeof *list_item)
ZeroMode ==
    [ BaseMode EXCEPT !.mode_module = NULL,
        !.softconnect_path = NULL, !.softconnect = NULL, !.softconnect_disconnect = NULL ]

\* "mode_name == NULL || mode_module == NULL"
mode_not_defined(item) == item.mode_name = NULL \/ item.mode_module = NULL

\* "network && network_interface == NULL"
network_not_fully_defined(item) == item.network # 0 /\ item.network_interface = NULL

\* faulty variant: a reset value without a path is let through
sysfs_value_not_fully_defined_path_only(item) ==
    item.sysfs_path # NULL /\ item.sysfs_value = NULL

\* "(sysfs_path && !sysfs_value) || (sysfs_reset_value && !sysfs_path)"
sysfs_value_not_fully_defined(item) ==
    \/ item.sysfs_path # NULL /\ item.sysfs_value = NULL
    \/ item.sysfs_reset_value # NULL /\ item.sysfs_path = NULL

\* the pointer modedata_load() returns: << >> for NULL, else << descriptor >>
modedata_load(file) ==
    IF ~file.loads
    THEN << >>
    ELSE LET item == [ ZeroMode EXCEPT
                         !.mode_name = file.mode_name,
                         !.mode_module = file.mode_module,
                         !.appsync = file.appsync,
                         !.mass_storage = file.mass_storage,
                         !.network = file.network,
                         !.network_interface = file.network_interface,
                         !.sysfs_path = file.sysfs_path,
                         !.sysfs_value = file.sysfs_value,
                         !.sysfs_reset_value = file.sysfs_reset_value ]
         IN  IF mode_not_defined(item) THEN << >>
             ELSE IF network_not_fully_defined(item) THEN << >>
             ELSE IF sysfs_value_not_fully_defined(item) THEN << >>
             ELSE << item >>

\* g_strcmp0() of two mode names, by the place of the names in the byte order
NameRank(name) ==
    CASE name = "a_mode" -> 1
      [] name = "b_mode" -> 2
      [] OTHER -> 0

modedata_sort_cb(aa, bb) == NameRank(aa.mode_name) - NameRank(bb.mode_name)

\* g_list_sort(): stable; here by insertion from the front
RECURSIVE g_list_insert_sorted(_, _)
g_list_insert_sorted(list, item) ==
    IF list = << >> THEN << item >>
    ELSE IF modedata_sort_cb(Head(list), item) <= 0
         THEN << Head(list) >> \o g_list_insert_sorted(Tail(list), item)
         ELSE << item >> \o list

RECURSIVE g_list_sort(_)
g_list_sort(list) ==
    IF list = << >> THEN << >>
    ELSE g_list_insert_sorted(g_list_sort(SubSeq(list, 1, Len(list) - 1)), list[Len(list)])

\* the "while(g_dir_read_name())" loop from file k on
RECURSIVE modelist_append_files(_, _, _)
modelist_append_files(dir, list, k) ==
    IF k > Len(dir)
    THEN list
    ELSE LET list_item == modedata_load(dir[k])
         IN  modelist_append_files(dir,
                                   IF list_item # << >> THEN list \o list_item ELSE list,
                                   k + 1)

\* dir: the files of the directory chosen by diag; opened: g_dir_open() succeeded
modelist_load(dir, opened) ==
    IF opened
    THEN g_list_sort(modelist_append_files(dir, << >>, 1))
    ELSE g_list_sort(<< >>)

(***************************************************************************)
(* The record an operation threads through its steps: the part of the      *)
(* program state it can change, the calls made so far, and the return code *)
(* of the last primitive.                                                  *)
(***************************************************************************)
Ev(k, a, b, rc) == [ k |-> k, a |-> a, b |-> b, rc |-> rc ]

Emit(m, e) == [ m EXCEPT !.tr = Append(@, e) ]

Machine ==
    [ tr |-> << >>, rc |-> 0,
      tv |-> tracked_values, fs |-> files,
      dn |-> delayed_network, tm |-> timers, nid |-> next_id, rm |-> removed ]

\* umdbus_send_state_signal(), umdbus_send_error_signal()
umdbus_send_state_signal(m, name) == Emit(m, Ev("state_signal", name, NULL, 0))
umdbus_send_error_signal(m, name) == Emit(m, Ev("error_signal", name, NULL, 0))

\* usbmoded_sleep(), usbmoded_msleep()
usbmoded_sleep(m, t) == Emit(m, Ev("sleep", t, NULL, 0))

(***************************************************************************)
(* Sysfs value tracker and the file primitives                             *)
(***************************************************************************)
Paths == { ANDROID0_ENABLE, ANDROID0_FUNCTIONS, ANDROID_LUN_FILE, ANDROID_IDPRODUCT,
           ANDROID_EXTRA, ANDROID_EXTRA2 }
          \cup { GadgetLunFile[i] : i \in 1..Len(GadgetLunFile) }

\* g_hash_table_replace() when text is there, g_hash_table_remove() when it is NULL
modesetting_track_value(m, path, text) ==
    IF ~m.tv.init \/ path = NULL
    THEN m
    ELSE [ m EXCEPT !.tv.map[path] = text ]

\* A file of the model: whether open(O_RDONLY) and read() succeed, and its
\* content.  The content is the sequence of its runs of characters: a run of
\* characters above 32 is one element (a word), and every character from 1 to
\* 32 is an element of its own.
File(raw) == [ ok |-> TRUE, raw |-> raw ]
NoFile == [ ok |-> FALSE, raw |-> << >> ]

\* "*src > 0 && *src <= 32"
IsSpace(c) == c \in { " ", "\n", "\t" }

\* "while( *src > 0 && *src <= 32 ) ++src;"
RECURSIVE skip_space(_)
skip_space(src) ==
    IF src # << >> /\ IsSpace(Head(src)) THEN skip_space(Tail(src)) ELSE src

\* "while( *src > 32 ) *dst++ = *src++;"
RECURSIVE copy_word(_, _)
copy_word(src, dst) ==
    IF src # << >> /\ ~IsSpace(Head(src))
    THEN copy_word(Tail(src), dst \o Head(src))
    ELSE [ src |-> src, dst |-> dst ]

\* the "for( ;; )" loop: a word, the white space after it, one blank unless
\* the end is reached
RECURSIVE strip_loop(_, _)
strip_loop(src, dst) ==
    LET w    == copy_word(src, dst)
        rest == skip_space(w.src)
    IN  IF rest = << >> THEN w.dst ELSE strip_loop(rest, w.dst \o " ")

modesetting_strip(raw) == strip_loop(skip_space(raw), "")

\* the stripped text, or NULL when the file cannot be opened or read
modesetting_read_from_file(m, path) ==
    IF m.fs[path].ok THEN modesetting_strip(m.fs[path].raw) ELSE NULL

\* what the attribute holds after `text` was written to it: the kernel shows
\* the value followed by a newline
Stored(text) == IF text = "" THEN << "\n" >> ELSE << text, "\n" >>

\* write_to_file(path, text); env.wfail: the paths whose open() or write() fails
modesetting_write_to_file_real(m, env, path, text) ==
    IF text = NULL \/ path = NULL
    THEN [ m EXCEPT !.rc = -1 ]
    ELSE LET clear == path = ANDROID0_FUNCTIONS /\ text \in { "", "none" }
             out   == IF clear THEN "none" ELSE text
             prev  == modesetting_read_from_file(m, path)
             m1    == IF prev # NULL
                      THEN modesetting_track_value(m, path, IF clear THEN "" ELSE out)
                      ELSE m
             err   == IF path \in env.wfail THEN -1 ELSE 0
             \* "while( todo > 0 )": nothing is written for an empty text
             m2    == IF err = 0 /\ m1.fs[path].ok /\ out # ""
                      THEN [ m1 EXCEPT !.fs[path] = File(Stored(IF clear THEN "" ELSE out)) ]
                      ELSE m1
         IN  [ Emit(m2, Ev("write", path, out, err)) EXCEPT !.rc = err ]

\* g_ascii_tolower() over a text; the texts of the model that hold upper-case
\* letters are listed, every other text is left as it is
ascii_tolower(text) ==
    CASE text = "DIAG" -> "diag"
      [] text = "0X1"  -> "0x1"
      [] OTHER         -> text

\* "!g_ascii_strcasecmp(text, curr)"
g_ascii_strcasecmp_equal(text, curr) == ascii_tolower(text) = ascii_tolower(curr)

\* The body of the g_hash_table_iter_next() loop from entry k of env.order, the
\* order in which the iterator hands out the entries (any order: a hash table).
\* When the file cannot be read, modesetting_track_value() removes the entry
\* with g_hash_table_remove() while the iterator is in use, which invalidates
\* the iterator: env.iter_stops tells whether the next g_hash_table_iter_next()
\* returns FALSE (GLib's check of the table version) or goes on.
RECURSIVE verify_entries(_, _, _)
verify_entries(m, env, k) ==
    IF k > Len(env.order)
    THEN m
    ELSE LET path == env.order[k]
             text == m.tv.map[path]
             curr == modesetting_read_from_file(m, path)
         IN  IF text # curr
             THEN LET level == IF curr # NULL /\ g_ascii_strcasecmp_equal(text, curr)
                               THEN "log_debug" ELSE "log_warning"
                      m1    == modesetting_track_value(Emit(m, Ev(level, path, curr, 0)),
                                                       path, curr)
                  IN  IF curr = NULL /\ env.iter_stops
                      THEN Emit(m1, Ev("g_critical", "g_hash_table_iter_next", NULL, 0))
                      ELSE verify_entries(m1, env, k + 1)
             ELSE verify_entries(m, env, k + 1)

\* verify_all: returns nothing
modesetting_verify_values(m, env) ==
    IF ~m.tv.init THEN m ELSE [ verify_entries(m, env, 1) EXCEPT !.rc = 0 ]

(***************************************************************************)
(* Mass-storage subsystem                                                  *)
(*                                                                         *)
(* env.mp[i] scripts what the commands run on mount point i answer in one  *)
(* call: the first `fails` umount commands fail; after them the mount      *)
(* point either can be unmounted (then = "ok") or is found not mounted any *)
(* more (then = "gone": fails = 0 is a mount point that was not mounted).  *)
(* n counts the umount commands that failed on mount point i so far.       *)
(***************************************************************************)
\* the comma separated list config_find_mounts() returned
MountList == << "/media/a", "/media/a,/media/b", "/media/a,/media/b,/media/c",
                "/media/a,/media/b,/media/c,/media/d" >>

\* usbmoded_system("mount | grep <mountpath>"): 0 when the mount point is mounted
mount_grep(m, env, i, n) ==
    LET rc == IF n < env.mp[i].fails \/ env.mp[i].then = "ok" THEN 0 ELSE 1
    IN  [ Emit(m, Ev("mount_grep", mounts[i], NULL, rc)) EXCEPT !.rc = rc ]

\* usbmoded_system("umount <mountpath>")
umount_cmd(m, env, i, n) ==
    LET rc == IF n < env.mp[i].fails THEN 1 ELSE 0
    IN  [ Emit(m, Ev("umount", mounts[i], NULL, rc)) EXCEPT !.rc = rc ]

RECURSIVE report_blockers(_, _)
report_blockers(m, k) ==
    IF k = 0 THEN m
    ELSE report_blockers(umdbus_send_error_signal(m, "blocking_process"), k - 1)

\* env.blockers: the process lines "lsof <mountpoint>" prints after its header
modesetting_report_mass_storage_blocker(m, env, mountpoint, try) ==
    report_blockers(Emit(m, Ev("lsof", mountpoint, NULL, 0)), env.blockers)

\* "if(try != 3)": retry, or give up
umount_may_retry(try) == try # UMOUNT_RETRIES

\* faulty variant: the result of the mounted-check is not looked at
is_mounted_unchecked(rc) == TRUE

\* "if(!ret)" after the mounted-check: unmount only what is mounted
is_mounted(rc) == rc = 0

\* faulty variant: giving up is not signalled and the function carries on
umount_give_up_silently(m, env) ==
    [ m |-> modesetting_report_mass_storage_blocker(m, env, MountList[Len(mounts)], 2),
      returned |-> FALSE ]

\* the last allowed attempt failed: report, signal, "return(ret)"
umount_give_up(m, env) ==
    [ m |-> [ umdbus_send_error_signal(
                  modesetting_report_mass_storage_blocker(m, env, MountList[Len(mounts)], 2),
                  UMOUNT_ERROR)
              EXCEPT !.rc = m.rc ],
      returned |-> TRUE ]

\* faulty variant: every mount point gets its own retries
try_at_next_mount_reset(try) == 0

\* "try" when the loop goes on to the next mount point: set to 0 once, in the
\* declaration, and not again
try_at_next_mount(try) == try

\* the "umount filesystems" loop with its "goto umount" retry; returned: the
\* function returned from inside the loop
RECURSIVE umount_filesystems(_, _, _, _, _)
umount_filesystems(m, env, i, try, n) ==
    IF i > Len(mounts)
    THEN [ m |-> m, returned |-> FALSE ]
    ELSE LET m1 == mount_grep(m, env, i, n)
         IN  IF is_mounted(m1.rc)
             THEN LET m2 == umount_cmd(m1, env, i, n)
                  IN  IF m2.rc # 0
                      THEN IF umount_may_retry(try)
                           THEN umount_filesystems(
                                    modesetting_report_mass_storage_blocker(
                                        usbmoded_sleep(m2, "1s"), env,
                                        MountList[Len(mounts)], 1),
                                    env, i, try + 1, n + 1)
                           ELSE umount_give_up(m2, env)
                      ELSE umount_filesystems(m2, env, i + 1, try_at_next_mount(try), 0)
             ELSE \* already unmounted: "ret = 0"
                  umount_filesystems([ m1 EXCEPT !.rc = 0 ], env, i + 1,
                                     try_at_next_mount(try), 0)

\* the "activate mounts" loop: one pass per logical unit; no write's result is kept
RECURSIVE program_luns(_, _, _, _)
program_luns(m, env, data, i) ==
    IF i > Len(mounts)
    THEN m
    ELSE IF data.mode_module # MODULE_NONE
         THEN program_luns(
                  modesetting_write_to_file_real(
                      Emit(m, Ev("nofua", GadgetLunFile[i], NULL, 0)),
                      env, GadgetLunFile[i], mounts[i]),
                  env, data, i + 1)
         ELSE program_luns(
                  modesetting_write_to_file_real(
                    modesetting_write_to_file_real(
                      modesetting_write_to_file_real(
                        modesetting_write_to_file_real(m, env, ANDROID0_ENABLE, "0"),
                        env, ANDROID0_FUNCTIONS, "mass_storage"),
                      env, ANDROID_LUN_FILE, MountList[Len(mounts)]),
                    env, ANDROID0_ENABLE, "1"),
                  env, data, i + 1)

\* "only send data in use signal in case we actually succeed"
mass_storage_finish(m) ==
    IF m.rc = 0 THEN [ umdbus_send_state_signal(m, DATA_IN_USE) EXCEPT !.rc = 0 ] ELSE m

\* faulty variant: the gadget is programmed right after the last unmount
settle_sleep_skipped(m) == m

\* "usbmoded_sleep(1)" between the unmount loop and the programming loop
settle_sleep(m) == usbmoded_sleep(m, "1s")

modesetting_set_mass_storage_mode(m, env, data) ==
    LET m0 == [ umdbus_send_state_signal(m, USB_PRE_UNMOUNT) EXCEPT !.rc = 0 ]
    IN  IF mounts = << >>
        THEN mass_storage_finish(m0)
        ELSE LET lun     == GadgetLunFile[Len(mounts)]
                 reload  == data.mode_module # MODULE_NONE /\ ~m0.fs[lun].ok
                 m1      == IF reload
                            THEN [ Emit(Emit(m0, Ev("unload_module", MODULE_MASS_STORAGE, NULL, 0)),
                                        Ev("modprobe", MODULE_MASS_STORAGE, NULL, env.modprobe))
                                   EXCEPT !.rc = env.modprobe ]
                            ELSE m0
             IN  IF reload /\ m1.rc # 0
                 THEN m1
                 ELSE LET u == umount_filesystems(m1, env, 1, 0, 0)
                      IN  IF u.returned
                          THEN u.m
                          ELSE \* the writes do not touch "ret"
                               mass_storage_finish(
                                   [ program_luns(settle_sleep(u.m), env, data, 1)
                                     EXCEPT !.rc = u.m.rc ])

\* env.remount[i]: "mounted" (mount | grep finds it), or what "mount" answers:
\* "mount_ok", "mount_fail"; env.alt_mount: config_find_alt_mount(); env.tmpfs:
\* the exit status of the tmpfs mount
RECURSIVE remount_filesystems(_, _, _, _, _)
remount_filesystems(m, env, data, has_data, i) ==
    IF i > Len(mounts)
    THEN m
    ELSE LET grep == IF env.remount[i] = "mounted" THEN 0 ELSE 1
             m1   == [ Emit(m, Ev("mount_grep", mounts[i], NULL, grep)) EXCEPT !.rc = grep ]
             mrc  == IF env.remount[i] = "mount_ok" THEN 0 ELSE 1
             m2   == IF grep # 0
                     THEN [ Emit(m1, Ev("mount", mounts[i], NULL, mrc)) EXCEPT !.rc = mrc ]
                     ELSE m1
             m3   == IF grep # 0 /\ mrc # 0
                     THEN umdbus_send_error_signal(
                              IF env.alt_mount # NULL
                              THEN [ Emit(m2, Ev("mount_tmpfs", env.alt_mount, NULL, env.tmpfs))
                                     EXCEPT !.rc = env.tmpfs ]
                              ELSE m2,
                              RE_MOUNT_FAILED)
                     ELSE m2
             r    == m3.rc
             m4   == IF has_data
                     THEN IF data.mode_module = MODULE_NONE
                          THEN modesetting_write_to_file_real(
                                   modesetting_write_to_file_real(m3, env, ANDROID_LUN_FILE, "0"),
                                   env, ANDROID0_ENABLE, "0")
                          ELSE m3
                     ELSE Emit(m3, Ev("clear_lun", GadgetLunFile[i], NULL, 0))
         IN  remount_filesystems([ m4 EXCEPT !.rc = r ], env, data, has_data, i + 1)

\* data: the descriptor, read only when has_data (the caller passed no NULL)
modesetting_unset_mass_storage_mode(m, env, data, has_data) ==
    IF mounts = << >>
    THEN [ m EXCEPT !.rc = 1 ]
    ELSE remount_filesystems([ m EXCEPT !.rc = 1 ], env, data, has_data, 1)

(***************************************************************************)
(* Delayed network retry: the glib timeout source                          *)
(***************************************************************************)
\* g_source_remove(id)
g_source_remove(m, id) ==
    [ Emit(m, Ev("g_source_remove", ToString(id), NULL, 0))
      EXCEPT !.tm = { t \in @ : t.id # id }, !.rm = @ \cup { id } ]

\* g_timeout_add_seconds(3, modesetting_network_retry, data): the new id in rc
g_timeout_add_seconds(m, data) ==
    [ Emit(m, Ev("g_timeout_add", ToString(m.nid), data.mode_name, 0))
      EXCEPT !.tm = @ \cup { [ id |-> m.nid, data |-> data.mode_name ] },
             !.nid = @ + 1, !.rc = m.nid ]

\* network_up(data); env.net_up: what it returns.  The record of the call
\* keeps the value delayed_network has when the call is made.
network_up(m, env, data) ==
    [ Emit(m, Ev("network_up", data.mode_name, ToString(m.dn), env.net_up))
      EXCEPT !.rc = env.net_up ]

network_down(m, data) == Emit(m, Ev("network_down", data.mode_name, NULL, 0))

\* faulty variant: the callback leaves the handle of the source that fired
retry_clear_handle_never(m) == m

\* "delayed_network = 0;"
retry_clear_handle(m) == [ m EXCEPT !.dn = 0 ]

\* the callback returns FALSE: the main loop destroys the source that fired
modesetting_network_retry(m, env, t) ==
    LET m1 == retry_clear_handle(Emit(m, Ev("timeout_fired", ToString(t.id), t.data, 0)))
        m2 == network_up(m1, env, Mode(t.data))
    IN  [ m2 EXCEPT !.tm = @ \ { t }, !.rc = 0 ]

\* faulty variant: the pending retry is not cancelled before the new one is scheduled
schedule_network_retry_stacking(m, data) ==
    LET m2 == g_timeout_add_seconds(m, data)
    IN  [ m2 EXCEPT !.dn = m2.rc ]

\* the body of "if(network != 0 && data->network)": cancel the pending retry,
\* schedule a new one
schedule_network_retry(m, data) ==
    LET m1 == IF m.dn # 0 THEN g_source_remove(m, m.dn) ELSE m
        m2 == g_timeout_add_seconds(m1, data)
    IN  [ m2 EXCEPT !.dn = m2.rc ]

(***************************************************************************)
(* Mode activation engine                                                  *)
(***************************************************************************)
\* config_get_android_vendor_id()
DefaultVendorId == "0x0A07"

\* faulty variant: the platform default vendor id is programmed in every mode
configfs_vendorid_default_only(data, id) == id

\* "data->idVendorOverride ?: id"
configfs_vendorid(data, id) ==
    IF data.idVendorOverride # NULL THEN data.idVendorOverride ELSE id

\* the configfs branch: only the last configfs_set_udc() decides ret; env.cfs:
\* whether each of the four steps before it fails
configfs_set(m, env, data) ==
    LET id == DefaultVendorId
        st(k) == IF k \in env.cfs THEN -1 ELSE 0
        m1 == Emit(m,  Ev("configfs_set_udc", "false", NULL, st(1)))
        m2 == Emit(m1, Ev("configfs_set_productid", data.idProduct, NULL, st(2)))
        m3 == Emit(m2, Ev("configfs_set_vendorid", configfs_vendorid(data, id), NULL, st(3)))
        m4 == Emit(m3, Ev("configfs_set_function", data.sysfs_value, NULL, st(4)))
        rc == IF env.udc THEN 0 ELSE -1
    IN  [ Emit(m4, Ev("configfs_set_udc", "true", NULL, rc)) EXCEPT !.rc = rc ]

\* the android branch; ret enters with the function's initial value 1
android_set(m, env, data) ==
    LET m1 == modesetting_write_to_file_real(m, env, data.softconnect_path,
                                             data.softconnect_disconnect)
        m2 == IF data.android_extra_sysfs_value # NULL
              THEN modesetting_write_to_file_real(m1, env, data.android_extra_sysfs_path,
                                                  data.android_extra_sysfs_value)
              ELSE [ m1 EXCEPT !.rc = 1 ]
        r  == m2.rc
        m3 == modesetting_write_to_file_real(m2, env, data.android_extra_sysfs_path2,
                                             data.android_extra_sysfs_value2)
        m4 == Emit(m3, Ev("android_set_productid", data.idProduct, NULL, 0))
        m5 == Emit(m4, Ev("android_set_vendorid", data.idVendorOverride, NULL, 0))
        m6 == modesetting_write_to_file_real(m5, env, data.sysfs_path, data.sysfs_value)
    IN  IF r = 0
        THEN modesetting_write_to_file_real(m6, env, data.softconnect_path, data.softconnect)
        ELSE [ m6 EXCEPT !.rc = r ]

\* the backend chain "if( configfs_in_use() ) ... else if( android_in_use() ) ..."
backend_set(m, env, data) ==
    CASE backend = "configfs" -> configfs_set(m, env, data)
      [] backend = "android"  -> android_set(m, env, data)
      [] backend = "modules"  -> [ m EXCEPT !.rc = 0 ]
      [] OTHER                -> [ m EXCEPT !.rc = 1 ]

\* faulty variant: the retry is scheduled whatever network_up() returned
network_retry_always(network, data) == data.network # 0

\* "if(network != 0 && data->network)"
network_retry_needed(network, data) == network # 0 /\ data.network # 0

\* faulty variant: the failure is returned but not signalled
report_mode_setting_failure_never(m, r) == m

\* "if(ret) umdbus_send_error_signal(MODE_SETTING_FAILED)"
report_mode_setting_failure(m, r) ==
    IF r # 0 THEN umdbus_send_error_signal(m, MODE_SETTING_FAILED) ELSE m

\* faulty variant: a failed network bring-up fails the activation
activate_return_with_network(r, network, data) ==
    IF r = 0 /\ data.network # 0 THEN network ELSE r

\* "return(ret)": ret was last assigned in the backend chain
activate_return(r, network, data) == r

\* faulty variant: the post-sync runs whatever the backend chain returned
post_sync_needed_always(data, r) == data.appsync # 0

\* "if(data->appsync && !ret)"
post_sync_needed(data, r) == data.appsync # 0 /\ r = 0

\* what follows the backend chain; r: the backend's result
activate_side_effects(m, env, data, r) ==
    LET m1 == IF data.network # 0
              THEN network_up(network_down(m, data), env, data)
              ELSE [ m EXCEPT !.rc = 1 ]
        network == m1.rc
        m2 == IF network_retry_needed(network, data)
              THEN schedule_network_retry(m1, data)
              ELSE m1
        m3 == IF data.nat # 0 \/ data.dhcp_server # 0
              THEN Emit(m2, Ev("network_set_up_dhcpd", data.mode_name, NULL, 0))
              ELSE m2
        m4 == IF post_sync_needed(data, r)
              THEN Emit(usbmoded_sleep(m3, "350ms"),
                        Ev("appsync_activate_sync_post", data.mode_name, NULL, 0))
              ELSE m3
        m5 == IF data.connman_tethering # NULL
              THEN Emit(m4, Ev("connman_set_tethering", data.connman_tethering, "TRUE", 0))
              ELSE m4
        m6 == report_mode_setting_failure(m5, r)
    IN  [ m6 EXCEPT !.rc = activate_return(r, network, data) ]

\* faulty variant: the mass-storage branch also drops the pending network retry
mass_storage_activate_dropping_retry(m, env, data) ==
    LET m1 == modesetting_set_mass_storage_mode(m, env, data)
    IN  IF m1.dn # 0 THEN [ g_source_remove(m1, m1.dn) EXCEPT !.dn = 0 ] ELSE m1

\* "if(data->mass_storage) return modesetting_set_mass_storage_mode(data);"
mass_storage_activate(m, env, data) == modesetting_set_mass_storage_mode(m, env, data)

\* faulty variant: the result of the pre-sync is not looked at
pre_sync_aborts_never(data, rc) == FALSE

\* "if(data->appsync) if(appsync_activate_sync(data->mode_name)) return(ret);"
pre_sync_aborts(data, rc) == data.appsync # 0 /\ rc # 0

\* env.presync: what appsync_activate_sync() returns
modesetting_set_dynamic_mode(m, env) ==
    IF mode_data = NULL
    THEN [ m EXCEPT !.rc = 1 ]
    ELSE LET data == Mode(mode_data)
         IN  IF data.mass_storage # 0
             THEN mass_storage_activate(m, env, data)
             ELSE LET m1 == IF data.appsync # 0
                            THEN [ Emit(m, Ev("appsync_activate_sync", data.mode_name, NULL,
                                              env.presync))
                                   EXCEPT !.rc = env.presync ]
                            ELSE [ m EXCEPT !.rc = 0 ]
                  IN  IF pre_sync_aborts(data, m1.rc)
                      THEN [ m1 EXCEPT !.rc = 1 ]
                      ELSE LET m2 == backend_set(m1, env, data)
                           IN  activate_side_effects(m2, env, data, m2.rc)

\* the android branch of unset
android_unset(m, env, data) ==
    LET m1 == modesetting_write_to_file_real(m, env, data.softconnect_path,
                                             data.softconnect_disconnect)
        m2 == modesetting_write_to_file_real(m1, env, data.sysfs_path,
                                             data.sysfs_reset_value)
        m3 == IF data.idVendorOverride # NULL
              THEN Emit(m2, Ev("android_set_vendorid", DefaultVendorId, NULL, 0))
              ELSE m2
    IN  modesetting_write_to_file_real(m3, env, data.softconnect_path, data.softconnect)

\* faulty variant: the retry is cancelled only when a descriptor is active
cancel_network_retry_if_active(m) ==
    IF mode_data # NULL /\ m.dn # 0
    THEN [ g_source_remove(m, m.dn) EXCEPT !.dn = 0 ]
    ELSE m

\* "if(delayed_network) { g_source_remove(delayed_network); delayed_network = 0; }"
cancel_network_retry(m) ==
    IF m.dn # 0
    THEN [ g_source_remove(m, m.dn) EXCEPT !.dn = 0 ]
    ELSE m

modesetting_unset_dynamic_mode(m, env) ==
    LET m1 == cancel_network_retry(m)
    IN  IF mode_data = NULL
        THEN m1
        ELSE LET data == Mode(mode_data)
             IN  IF data.mode_name = MODE_MASS_STORAGE
                 THEN modesetting_unset_mass_storage_mode(m1, env, data, TRUE)
                 ELSE LET m2 == IF data.connman_tethering # NULL
                                THEN Emit(m1, Ev("connman_set_tethering",
                                                 data.connman_tethering, "FALSE", 0))
                                ELSE m1
                          m3 == IF data.network # 0 THEN network_down(m2, data) ELSE m2
                      IN  CASE backend = "configfs" -> m3
                            [] backend = "android"  -> android_unset(m3, env, data)
                            [] OTHER                -> m3

\* faulty variant: cleanup hands on what the teardown returned
cleanup_return_teardown(rc) == rc

\* "return(0)", "return 0"
cleanup_return(rc) == 0

\* module: the name passed in, or NULL
modesetting_cleanup(m, env, module) ==
    IF module = NULL
    THEN [ m EXCEPT !.rc = 0 ]
    ELSE LET m1 == Emit(m, Ev("appsync_stop", "FALSE", NULL, 0))
         IN  IF module \in { MODULE_MASS_STORAGE, MODULE_FILE_STORAGE }
             THEN IF usb_mode \in { MODE_CHARGING, MODE_CHARGING_FALLBACK }
                  THEN [ m1 EXCEPT !.rc = 0 ]
                  ELSE LET m2 == modesetting_unset_mass_storage_mode(m1, env, BaseMode, FALSE)
                       IN  [ m2 EXCEPT !.rc = cleanup_return(m2.rc) ]
             ELSE IF mode_data # NULL
                  THEN LET m2 == modesetting_unset_dynamic_mode(m1, env)
                       IN  [ m2 EXCEPT !.rc = cleanup_return(m2.rc) ]
                  ELSE [ m1 EXCEPT !.rc = 0 ]

(***************************************************************************)
(* What the collaborators may answer during one call                       *)
(***************************************************************************)
EnvNone ==
    [ wfail |-> {}, mp |-> << >>, blockers |-> 0, modprobe |-> 0,
      net_up |-> 0, presync |-> 0, udc |-> TRUE,
      remount |-> << >>, tmpfs |-> 0, alt_mount |-> NULL,
      order |-> << >>, iter_stops |-> FALSE, cfs |-> {} ]

\* a mount point fails to unmount 0 .. UMOUNT_RETRIES + 1 times
MpScripts ==
    { [ fails |-> k, then |-> t ] : k \in 0..(UMOUNT_RETRIES + 1), t \in { "ok", "gone" } }

\* the files the operations on descriptor `data` write
LunPaths(data) ==
    IF data.mode_module # MODULE_NONE
    THEN { GadgetLunFile[i] : i \in 1..Len(mounts) }
    ELSE { ANDROID0_ENABLE, ANDROID0_FUNCTIONS, ANDROID_LUN_FILE }

AndroidPaths(data) ==
    { data.softconnect_path, data.sysfs_path,
      data.android_extra_sysfs_path, data.android_extra_sysfs_path2 } \ { NULL }

Status(used) == IF used THEN { 0, 1 } ELSE { 0 }

EnableEnvs(data) ==
    UNION { { [ EnvNone EXCEPT !.wfail = w, !.mp = s, !.blockers = b, !.modprobe = p ] :
                w \in SUBSET LunPaths(data),
                b \in Status(\E i \in 1..Len(mounts) : s[i].fails > 0),
                p \in Status(data.mode_module # MODULE_NONE /\ mounts # << >>
                             /\ ~files[GadgetLunFile[IF mounts = << >> THEN 1
                                                     ELSE Len(mounts)]].ok) } :
            s \in [ 1..Len(mounts) -> MpScripts ] }

ActivateEnvs ==
    IF mode_data = NULL
    THEN { EnvNone }
    ELSE LET data == Mode(mode_data)
         IN  IF data.mass_storage # 0
             THEN EnableEnvs(data)
             ELSE { [ EnvNone EXCEPT !.wfail = w, !.net_up = n, !.presync = a, !.udc = (u = 0),
                                     !.cfs = c ] :
                      w \in IF backend = "android" THEN SUBSET AndroidPaths(data) ELSE { {} },
                      c \in IF backend = "configfs" THEN SUBSET (1..4) ELSE { {} },
                      n \in Status(data.network # 0),
                      a \in Status(data.appsync # 0),
                      u \in Status(backend = "configfs") }

DisableEnvs(paths) ==
    UNION { { [ EnvNone EXCEPT !.wfail = w, !.remount = r, !.tmpfs = t, !.alt_mount = a ] :
                w \in SUBSET paths,
                t \in Status(\E i \in 1..Len(mounts) : r[i] = "mount_fail"),
                a \in IF \E i \in 1..Len(mounts) : r[i] = "mount_fail"
                      THEN { NULL, "/tmp/usb_alt" } ELSE { NULL } } :
            r \in [ 1..Len(mounts) -> { "mounted", "mount_ok", "mount_fail" } ] }

DeactivateEnvs ==
    IF mode_data = NULL
    THEN { EnvNone }
    ELSE LET data == Mode(mode_data)
         IN  IF data.mode_name = MODE_MASS_STORAGE
             THEN DisableEnvs({ ANDROID0_ENABLE, ANDROID_LUN_FILE })
             ELSE { [ EnvNone EXCEPT !.wfail = w ] :
                      w \in IF backend = "android"
                            THEN SUBSET ({ data.softconnect_path, data.sysfs_path } \ { NULL })
                            ELSE { {} } }

RetryEnvs == { [ EnvNone EXCEPT !.net_up = n ] : n \in { 0, 1 } }

\* the orders in which a hash table iterator can hand out the entries `keys`
IterOrders(keys) ==
    { f \in [ 1..Cardinality(keys) -> keys ] :
        \A i, j \in 1..Cardinality(keys) : i # j => f[i] # f[j] }

TrackedPaths == { p \in Paths : tracked_values.map[p] # NULL }

VerifyEnvs ==
    { [ EnvNone EXCEPT !.order = o, !.iter_stops = b ] :
        o \in IterOrders(TrackedPaths),
        b \in IF \E p \in TrackedPaths : ~files[p].ok THEN BOOLEAN ELSE { FALSE } }

(***************************************************************************)
(* Actions                                                                 *)
(***************************************************************************)
EmptyTracker == [ init |-> TRUE, map |-> [ p \in Paths |-> NULL ] ]

NoRound == [ phase |-> "none", before |-> EmptyTracker.map ]

\* the state an operation leaves, and what it did
Apply(m, name) ==
    /\ round' = CASE name = "activate" ->
                       [ phase |-> "activated", before |-> tracked_values.map ]
                  [] name = "deactivate" /\ round.phase = "activated" ->
                       [ phase |-> "deactivated", before |-> round.before ]
                  [] OTHER -> NoRound
    /\ tracked_values' = m.tv
    /\ files' = m.fs
    /\ delayed_network' = m.dn
    /\ timers' = m.tm
    /\ next_id' = m.nid
    /\ removed' = m.rm
    /\ trace' = m.tr
    /\ ret' = m.rc
    /\ op' = name

\* The operations run from the main loop, one at a time: op = "idle" between two
\* of them.  After an operation, op names it and trace and ret hold what it did
\* and returned, until the caller takes the result (Return).
Return ==
    /\ op # "idle"
    /\ op' = "idle"
    /\ trace' = << >>
    /\ ret' = 0
    /\ UNCHANGED << confdir, modelist, backend, mounts, mode_data, usb_mode, delayed_network, timers,
                    next_id, removed, tracked_values, files, round >>

\* the daemon selects a mode: usbmoded_set_usb_mode() and its mode data
SetMode ==
    /\ op = "idle"
    /\ \E n \in ModeNames \cup { NULL } :
         /\ mode_data' = n
         /\ \E u \in IF n = NULL
                     THEN { MODE_CHARGING, MODE_CHARGING_FALLBACK, MODE_UNDEFINED }
                     ELSE { n } : usb_mode' = u
    /\ round' = NoRound
    /\ UNCHANGED << confdir, modelist, backend, mounts, delayed_network, timers, next_id, removed,
                    tracked_values, files, op, trace, ret >>

Activate ==
    /\ op = "idle"
    /\ next_id <= MaxSources
    /\ \E env \in ActivateEnvs :
         Apply(modesetting_set_dynamic_mode(Machine, env), "activate")
    /\ UNCHANGED << confdir, modelist, backend, mounts, mode_data, usb_mode >>

Deactivate ==
    /\ op = "idle"
    /\ \E env \in DeactivateEnvs :
         Apply(modesetting_unset_dynamic_mode(Machine, env), "deactivate")
    /\ UNCHANGED << confdir, modelist, backend, mounts, mode_data, usb_mode >>

CleanupModules == { NULL, MODULE_NONE, MODULE_MASS_STORAGE, MODULE_FILE_STORAGE }

CleanupEnvs(module) ==
    IF module \in { MODULE_MASS_STORAGE, MODULE_FILE_STORAGE }
    THEN DisableEnvs({})
    ELSE DeactivateEnvs

Cleanup ==
    /\ op = "idle"
    /\ \E module \in CleanupModules :
         \E env \in CleanupEnvs(module) :
            Apply(modesetting_cleanup(Machine, env, module), "cleanup")
    /\ UNCHANGED << confdir, modelist, backend, mounts, mode_data, usb_mode >>

\* the main loop runs a timeout source that is due
TimerFire ==
    /\ op = "idle"
    /\ \E t \in timers :
         \E env \in RetryEnvs :
            Apply(modesetting_network_retry(Machine, env, t), "retry")
    /\ UNCHANGED << confdir, modelist, backend, mounts, mode_data, usb_mode >>

(***************************************************************************)
(* The engine: sysfs attributes that cannot be read back (the tracker      *)
(* records nothing), at most one configured mount point                    *)
(***************************************************************************)
Unreadable == [ p \in Paths |-> NoFile ]

Init ==
    /\ backend \in Backends
    /\ mounts \in { SubSeq(MountNames, 1, k) : k \in 0..1 }
    /\ mode_data = NULL
    /\ usb_mode = MODE_UNDEFINED
    /\ delayed_network = 0
    /\ timers = {}
    /\ next_id = 1
    /\ removed = {}
    /\ tracked_values = EmptyTracker
    /\ files = Unreadable
    /\ op = "idle"
    /\ trace = << >>
    /\ ret = 0
    /\ round = NoRound
    /\ confdir = << >>
    /\ modelist = << >>

Next == SetMode \/ Activate \/ Deactivate \/ Cleanup \/ TimerFire \/ Return

Spec == Init /\ [][Next]_vars

\* The glib main loop: a callback that was entered returns, and a timeout
\* source that is due is dispatched once the loop is idle, however often other
\* work comes in between.
SpecLive == Spec /\ WF_vars(Return) /\ SF_vars(TimerFire)

(***************************************************************************)
(* The mass-storage subsystem alone: up to MaxMounts mount points, the     *)
(* two mass-storage descriptors, lun files present or missing              *)
(***************************************************************************)
StorageModes == { d.mode_name : d \in { x \in ModeTable : x.mass_storage # 0 } }

\* the discrete module's lun files exist, the android attributes do not
GadgetFiles ==
    [ p \in Paths |-> IF p \in { GadgetLunFile[i] : i \in 1..Len(GadgetLunFile) }
                      THEN File(<< >>) ELSE NoFile ]

InitStorage ==
    /\ backend = "android"
    /\ mounts \in { SubSeq(MountNames, 1, k) : k \in 0..MaxMounts }
    /\ mode_data \in StorageModes
    /\ usb_mode = mode_data
    /\ delayed_network = 0
    /\ timers = {}
    /\ next_id = 1
    /\ removed = {}
    /\ tracked_values = EmptyTracker
    /\ files \in { Unreadable, GadgetFiles }
    /\ op = "idle"
    /\ trace = << >>
    /\ ret = 0
    /\ round = NoRound
    /\ confdir = << >>
    /\ modelist = << >>

NextStorage == Activate \/ Deactivate \/ Cleanup \/ Return

SpecStorage == InitStorage /\ [][NextStorage]_vars

(***************************************************************************)
(* The descriptor loader: a directory of up to MaxFiles configuration      *)
(* files, loaded on demand                                                 *)
(***************************************************************************)
\* the values of the keys "name" and "module" of [mode]
NameKeys ==
    { [ mode_name |-> n, mode_module |-> mo ] :
        n \in { NULL, "a_mode", "b_mode" }, mo \in { NULL, MODULE_NONE } }

\* the values of the keys "network" and "network_interface" of [mode]
NetworkKeys ==
    { [ network |-> n, network_interface |-> i ] : n \in { 0, 1 }, i \in { NULL, "usb0" } }

\* the values of the keys "sysfs_path", "sysfs_value", "sysfs_reset_value" of [options]
SysfsKeys ==
    { [ sysfs_path |-> p, sysfs_value |-> v, sysfs_reset_value |-> r ] :
        p \in { NULL, ANDROID0_FUNCTIONS }, v \in { NULL, "mtp" }, r \in { NULL, "none" } }

KeyFile(loads, nk, net, sys) ==
    [ loads |-> loads,
      mode_name |-> nk.mode_name, mode_module |-> nk.mode_module,
      appsync |-> 0, mass_storage |-> 0,
      network |-> net.network, network_interface |-> net.network_interface,
      sysfs_path |-> sys.sysfs_path, sysfs_value |-> sys.sysfs_value,
      sysfs_reset_value |-> sys.sysfs_reset_value ]

NoNetworkKeys == [ network |-> 0, network_interface |-> NULL ]
NoSysfsKeys == [ sysfs_path |-> NULL, sysfs_value |-> NULL, sysfs_reset_value |-> NULL ]
AllKeys == [ network |-> 1, network_interface |-> "usb0" ]

\* the configuration files of the model: a file g_key_file cannot load, and
\* the files that have every value of one group of keys next to a well formed
\* or a missing pair of name and module
ConfFiles ==
    { KeyFile(FALSE, [ mode_name |-> NULL, mode_module |-> NULL ], NoNetworkKeys, NoSysfsKeys) }
    \cup { KeyFile(TRUE, nk, net, NoSysfsKeys) :
             nk \in { k \in NameKeys : k.mode_module # NULL \/ k.mode_name = "a_mode" },
             net \in NetworkKeys }
    \cup { KeyFile(TRUE, nk, net, sys) :
             nk \in { k \in NameKeys : k.mode_name # NULL /\ k.mode_module # NULL },
             net \in { NoNetworkKeys, AllKeys },
             sys \in SysfsKeys }

Directories ==
    UNION { [ 1..k -> ConfFiles ] : k \in 0..MaxFiles }

\* modelist_load(diag)
LoadModes ==
    /\ op = "idle"
    /\ \E diag \in { 0, 1 }, opened \in BOOLEAN :
         /\ modelist' = modelist_load(confdir, opened)
         /\ trace' = << Ev("g_dir_open", ToString(diag), NULL, IF opened THEN 0 ELSE -1) >>
    /\ op' = "load"
    /\ ret' = 0
    /\ round' = NoRound
    /\ UNCHANGED << confdir, backend, mounts, mode_data, usb_mode, delayed_network, timers,
                    next_id, removed, tracked_values, files >>

InitLoader ==
    /\ confdir \in Directories
    /\ modelist = << >>
    /\ backend = "none"
    /\ mounts = << >>
    /\ mode_data = NULL
    /\ usb_mode = MODE_UNDEFINED
    /\ delayed_network = 0
    /\ timers = {}
    /\ next_id = 1
    /\ removed = {}
    /\ tracked_values = EmptyTracker
    /\ files = Unreadable
    /\ op = "idle"
    /\ trace = << >>
    /\ ret = 0
    /\ round = NoRound

NextLoader == LoadModes \/ Return

SpecLoader == InitLoader /\ [][NextLoader]_vars

(***************************************************************************)
(* The sysfs value tracker: the android backend with attribute files that  *)
(* can be read back, one descriptor, verify_all on demand, direct calls of *)
(* write_to_file(), and changes of the attributes from outside the daemon  *)
(***************************************************************************)
\* verify_all, called on demand
Verify ==
    /\ op = "idle"
    /\ \E env \in VerifyEnvs :
         Apply(modesetting_verify_values(Machine, env), "verify")
    /\ UNCHANGED << confdir, modelist, backend, mounts, mode_data, usb_mode >>

WritePaths == { ANDROID0_FUNCTIONS, NULL }
WriteTexts == { "none", "mtp", NULL }

\* write_to_file(path, text), called from another part of the daemon
WriteToFile ==
    /\ op = "idle"
    /\ \E path \in WritePaths, text \in WriteTexts, fails \in BOOLEAN :
         Apply(modesetting_write_to_file_real(
                   Machine, [ EnvNone EXCEPT !.wfail = IF fails THEN { path } ELSE {} ],
                   path, text),
               "write")
    /\ UNCHANGED << confdir, modelist, backend, mounts, mode_data, usb_mode >>

DriftPaths == { ANDROID0_FUNCTIONS, ANDROID_EXTRA }
DriftContents == { NoFile, File(<< " ", "DIAG", "\t", "\n" >>) }

\* the kernel or another process changes an attribute, or takes it away
Drift ==
    /\ op = "idle"
    /\ \E p \in DriftPaths, c \in DriftContents :
         /\ files[p] # c
         /\ files' = [ files EXCEPT ![p] = c ]
    /\ round' = NoRound
    /\ UNCHANGED << confdir, modelist, backend, mounts, mode_data, usb_mode, delayed_network, timers,
                    next_id, removed, tracked_values, op, trace, ret >>

TrackerModes == { "host_mode", "diag_mode" }

\* the android attributes exist and can be read, the discrete module's lun files do not
AndroidFiles ==
    [ p \in Paths |-> IF p \in { GadgetLunFile[i] : i \in 1..Len(GadgetLunFile) }
                      THEN NoFile ELSE File(<< "0", "\n" >>) ]

InitTracker ==
    /\ backend = "android"
    /\ mounts = << >>
    /\ mode_data \in TrackerModes
    /\ usb_mode = mode_data
    /\ delayed_network = 0
    /\ timers = {}
    /\ next_id = 1
    /\ removed = {}
    /\ tracked_values = EmptyTracker
    /\ files = AndroidFiles
    /\ op = "idle"
    /\ trace = << >>
    /\ ret = 0
    /\ round = NoRound
    /\ confdir = << >>
    /\ modelist = << >>

NextTracker == Activate \/ Deactivate \/ Verify \/ WriteToFile \/ Drift \/ Return

SpecTracker == InitTracker /\ [][NextTracker]_vars

(***************************************************************************)
(* Reading the record of the last operation                                *)
(***************************************************************************)
Indexes(k) == { i \in DOMAIN trace : trace[i].k = k }

Signalled(k, name) == \E i \in Indexes(k) : trace[i].a = name

\* a write_to_file() that reached open(): path and text
WriteAt(i, path, text) ==
    trace[i].k = "write" /\ trace[i].a = path /\ trace[i].b = text

\* the pre-sync returned non-zero
PreSyncAborted == \E i \in Indexes("appsync_activate_sync") : trace[i].rc # 0

\* activate went through mass-storage enable
EnableRan == op = "activate" /\ mode_data # NULL /\ Mode(mode_data).mass_storage # 0

\* activate went through the backend chain
BackendRan ==
    op = "activate" /\ mode_data # NULL /\ Mode(mode_data).mass_storage = 0 /\ ~PreSyncAborted

\* a failed umount command that no retry followed: the last allowed attempt
ExhaustedAt(i) ==
    /\ trace[i].k = "umount" /\ trace[i].rc # 0
    /\ \A j \in Indexes("mount_grep") : j < i

(***************************************************************************)
(* C1: in mass-storage enable, a mount point whose unmount keeps failing   *)
(* gets exactly 4 umount attempts before enable fails with the             *)
(* unmount-error signal, whatever happened on the mount points before it.  *)
(* The code counts the retries of all mount points in one counter, so the  *)
(* statement fails after an earlier mount point has used a retry.          *)
(***************************************************************************)
C1_FourAttemptsPerMountPoint ==
    EnableRan =>
        \A i \in DOMAIN trace :
            ExhaustedAt(i) =>
                Cardinality({ j \in Indexes("umount") : trace[j].a = trace[i].a })
                    = UMOUNT_RETRIES + 1

(***************************************************************************)
(* C2: when the last allowed unmount attempt fails, enable emits the       *)
(* unmount-error signal, returns failure, makes no gadget-programming      *)
(* write afterwards and never emits the data-in-use notification.          *)
(***************************************************************************)
C2_ExhaustedUnmountFailsEnable ==
    EnableRan =>
        \A i \in DOMAIN trace :
            ExhaustedAt(i) =>
                /\ \E j \in Indexes("error_signal") : j > i /\ trace[j].a = UMOUNT_ERROR
                /\ ret # 0
                /\ \A j \in Indexes("write") \cup Indexes("nofua") : j < i
                /\ ~Signalled("state_signal", DATA_IN_USE)

\* enable gave up on the second of two mount points
C2_Witness ==
    /\ EnableRan /\ Len(mounts) = 2
    /\ \E i \in DOMAIN trace : ExhaustedAt(i) /\ trace[i].a = mounts[2]
    /\ Signalled("error_signal", UMOUNT_ERROR)

(***************************************************************************)
(* C3: mass-storage enable returns 0 and emits data-in-use only if every   *)
(* gadget-programming write succeeded.  The code drops the result of every *)
(* write_to_file() of the programming loop.                                *)
(***************************************************************************)
C3_SuccessOnlyIfEveryWriteSucceeded ==
    EnableRan /\ (ret = 0 \/ Signalled("state_signal", DATA_IN_USE)) =>
        \A i \in Indexes("write") : trace[i].rc = 0

(***************************************************************************)
(* C4: a mount point the mounted-check reports as not mounted counts as    *)
(* success: the umount command is not run on it afterwards, on the first   *)
(* check or on a re-check during a retry, and enable carries on with the   *)
(* next mount point or the settle sleep; an umount command only follows a  *)
(* check that found the mount point mounted.                               *)
(***************************************************************************)
C4_NotMountedIsSuccess ==
    EnableRan =>
        /\ \A i \in Indexes("mount_grep") :
              trace[i].rc # 0 =>
                  /\ \A j \in Indexes("umount") : j > i => trace[j].a # trace[i].a
                  /\ i < Len(trace)
                  /\ \/ trace[i + 1].k = "mount_grep" /\ trace[i + 1].a # trace[i].a
                     \/ trace[i + 1].k = "sleep"
        /\ \A j \in Indexes("umount") :
              j > 1 /\ trace[j - 1].k = "mount_grep" /\ trace[j - 1].rc = 0
                    /\ trace[j - 1].a = trace[j].a
        /\ (Indexes("mount_grep") # {} /\ \A i \in Indexes("mount_grep") : trace[i].rc # 0)
              => ret = 0 /\ Signalled("state_signal", DATA_IN_USE)

\* a re-check during a retry found the mount point gone, and enable succeeded
C4_Witness ==
    /\ EnableRan /\ ret = 0
    /\ \E i \in Indexes("mount_grep") :
          /\ trace[i].rc # 0
          /\ \E j \in Indexes("umount") : j < i /\ trace[j].a = trace[i].a /\ trace[j].rc # 0

(***************************************************************************)
(* C5: whenever activate returns failure, a mode-setting-failed signal was *)
(* emitted during the call, on every failure path.  The early returns (no  *)
(* descriptor, mass-storage enable, pre-sync abort) emit none.             *)
(***************************************************************************)
C5_EveryFailureSignalled ==
    op = "activate" /\ ret # 0 => Signalled("error_signal", MODE_SETTING_FAILED)

\* C5 as amended: a failure of activate is signalled as mode-setting-failed
\* exactly when the call got as far as the backend chain; the failures returned
\* before it (no active descriptor, mass-storage enable, pre-sync abort) are not.
C5_FailureSignalledIffBackendRan ==
    op = "activate" /\ ret # 0 =>
        (Signalled("error_signal", MODE_SETTING_FAILED) <=> BackendRan)

\* the backend chain failed and the failure was signalled last
C5_Witness ==
    /\ BackendRan /\ ret # 0
    /\ trace # << >>
    /\ trace[Len(trace)].k = "error_signal" /\ trace[Len(trace)].a = MODE_SETTING_FAILED

(***************************************************************************)
(* C6: with the android backend, activate returns success exactly when the *)
(* write of sysfs_value to sysfs_path succeeds.  The code drops the result *)
(* of that write: ret comes from the extra attribute write and from the    *)
(* soft-connect write.                                                     *)
(***************************************************************************)
C6_PrimaryWriteGatesResult ==
    BackendRan /\ backend = "android" =>
        (ret = 0 <=>
            \E i \in DOMAIN trace :
                /\ WriteAt(i, Mode(mode_data).sysfs_path, Mode(mode_data).sysfs_value)
                /\ trace[i].rc = 0)

(***************************************************************************)
(* C7: with the android backend, activate writes in the order soft-connect *)
(* disconnect, extra attribute pairs, product id, vendor id, primary sysfs *)
(* value, soft-connect connect; the soft-connect connect write always      *)
(* occurs, also without an extra attribute pair.  The code makes the last  *)
(* write only when the extra attribute write returned 0.                   *)
(***************************************************************************)
C7_AndroidWriteOrder ==
    BackendRan /\ backend = "android" =>
        LET data == Mode(mode_data)
        IN  \E i1, i4, i5, i6, i7 \in DOMAIN trace :
                /\ i1 < i4 /\ i4 < i5 /\ i5 < i6 /\ i6 < i7
                /\ WriteAt(i1, data.softconnect_path, data.softconnect_disconnect)
                /\ trace[i4].k = "android_set_productid"
                /\ trace[i5].k = "android_set_vendorid"
                /\ WriteAt(i6, data.sysfs_path, data.sysfs_value)
                /\ WriteAt(i7, data.softconnect_path, data.softconnect)
                /\ \A j \in Indexes("write") :
                      trace[j].a \in { data.android_extra_sysfs_path,
                                       data.android_extra_sysfs_path2 }
                          => i1 < j /\ j < i4

(***************************************************************************)
(* C8: at most one network retry timer is pending in every reachable       *)
(* state; activate cancels the pending one before it schedules a new one,  *)
(* and a cancelled timer never fires.                                      *)
(***************************************************************************)
C8_AtMostOneRetryTimer ==
    /\ Cardinality(timers) <= 1
    /\ \A t \in timers : t.id \notin removed
    /\ op = "activate" =>
          \A i \in Indexes("g_source_remove"), j \in Indexes("g_timeout_add") : i < j
    /\ op = "retry" => \A id \in removed : trace[1].a # ToString(id)

\* an activate superseded a pending retry
C8_Witness ==
    /\ op = "activate"
    /\ Indexes("g_source_remove") # {} /\ Indexes("g_timeout_add") # {}
    /\ Cardinality(timers) = 1

C10_DeactivateCancelsRetry ==
    /\ op = "deactivate" =>
          /\ delayed_network = 0 /\ timers = {}
          /\ \A i \in Indexes("g_source_remove") : i = 1
          /\ mode_data = NULL => \A i \in DOMAIN trace : trace[i].k = "g_source_remove"
    /\ op = "retry" => \A id \in removed : ToString(id) # trace[1].a

\* a pending retry was cancelled by a deactivate that found no descriptor
C10_Witness ==
    /\ op = "deactivate" /\ mode_data = NULL
    /\ Len(trace) = 1 /\ trace[1].k = "g_source_remove"
    /\ removed # {}

(***************************************************************************)
(* C11: after activate(d) followed by deactivate(), every path of the      *)
(* tracker is absent, or tracked as it was before the activation, or       *)
(* tracked with its reset-state value (for the primary path the reset      *)
(* value, or the original value when none is configured; for the           *)
(* soft-connect path the connect value).  The code never resets what the   *)
(* activation wrote to the extra attribute paths.                          *)
(***************************************************************************)
\* what the tracker holds for a text written to path
TrackedAs(path, text) ==
    IF path = ANDROID0_FUNCTIONS /\ text \in { "", "none" } THEN "" ELSE text

\* the values path p may be tracked with after descriptor d was deactivated
ResetState(d, p) ==
    (IF p = d.sysfs_path
     THEN { TrackedAs(p, IF d.sysfs_reset_value # NULL
                         THEN d.sysfs_reset_value ELSE d.sysfs_value) }
     ELSE {})
    \cup (IF p = d.softconnect_path THEN { d.softconnect } ELSE {})

C11_RoundTripLeavesTrackerClean ==
    round.phase = "deactivated" /\ mode_data # NULL =>
        \A p \in Paths :
            \/ tracked_values.map[p] = NULL
            \/ tracked_values.map[p] = round.before[p]
            \/ tracked_values.map[p] \in ResetState(Mode(mode_data), p)

(***************************************************************************)
(* C12: deactivate of a mass-storage descriptor (mass_storage flag set),   *)
(* whatever its name, goes through mass-storage disable (every configured  *)
(* mount point is checked) and runs none of the tethering, network-down    *)
(* and backend-unset steps.  The code selects disable by the mode name     *)
(* "mass_storage", not by the flag.                                        *)
(***************************************************************************)
C12_MassStorageDeactivateDelegates ==
    op = "deactivate" /\ mode_data # NULL /\ Mode(mode_data).mass_storage # 0 =>
        /\ \A i \in 1..Len(mounts) :
              \E j \in Indexes("mount_grep") : trace[j].a = mounts[i]
        /\ \A j \in DOMAIN trace :
              /\ trace[j].k \notin { "connman_set_tethering", "network_down",
                                     "android_set_vendorid" }
              /\ ~WriteAt(j, Mode(mode_data).softconnect_path, Mode(mode_data).softconnect)

(***************************************************************************)
(* C13: with the android backend, deactivate writes to the primary sysfs   *)
(* path the reset value when one is configured and the original value when *)
(* none is, between the soft-connect disconnect write and the soft-connect *)
(* connect write.  The code passes sysfs_reset_value to write_to_file()    *)
(* as it is: without a reset value nothing is written to the primary path. *)
(***************************************************************************)
\* the text that reaches write() for a text passed to write_to_file()
WrittenAs(path, text) ==
    IF path = ANDROID0_FUNCTIONS /\ text \in { "", "none" } THEN "none" ELSE text

C13_DeactivateWritesResetOrOriginal ==
    (/\ op = "deactivate" /\ backend = "android" /\ mode_data # NULL
     /\ Mode(mode_data).mass_storage = 0 /\ Mode(mode_data).sysfs_path # NULL) =>
        LET data  == Mode(mode_data)
            value == IF data.sysfs_reset_value # NULL
                     THEN data.sysfs_reset_value ELSE data.sysfs_value
        IN  \E i1, i2, i3 \in DOMAIN trace :
                /\ i1 < i2 /\ i2 < i3
                /\ WriteAt(i1, data.softconnect_path, data.softconnect_disconnect)
                /\ WriteAt(i2, data.sysfs_path, WrittenAs(data.sysfs_path, value))
                /\ WriteAt(i3, data.softconnect_path, data.softconnect)

(***************************************************************************)
(* C14: for a descriptor that is not mass-storage and whose pre-sync did   *)
(* not abort, activate returns the result of the backend set step alone:   *)
(* what network bring-up, DHCP/NAT setup, post-sync and tethering did       *)
(* never changes it.                                                       *)
(***************************************************************************)
\* the result of the backend set step, read from the calls the step made
BackendResult ==
    LET data == Mode(mode_data)
        rcs(path, text) == { trace[i].rc : i \in { j \in DOMAIN trace : WriteAt(j, path, text) } }
    IN  CASE backend = "configfs" ->
               IF \E i \in Indexes("configfs_set_udc") : trace[i].a = "true" /\ trace[i].rc = 0
               THEN 0 ELSE -1
          [] backend = "android" ->
               IF data.android_extra_sysfs_value = NULL
               THEN 1
               ELSE IF 0 \notin rcs(data.android_extra_sysfs_path,
                                    data.android_extra_sysfs_value)
                    THEN -1
                    ELSE IF 0 \in rcs(data.softconnect_path, data.softconnect)
                         THEN 0 ELSE -1
          [] backend = "modules" -> 0
          [] OTHER -> 1

C14_ResultIsBackendResult ==
    BackendRan => ret = BackendResult

\* the network bring-up failed and a retry was scheduled, and activate returned success
C14_Witness ==
    /\ BackendRan /\ ret = 0
    /\ \E i \in Indexes("network_up") : trace[i].rc # 0
    /\ Indexes("g_timeout_add") # {}

(***************************************************************************)
(* C15: activate of a mass-storage descriptor runs mass-storage enable and *)
(* nothing else, and returns its result: the call starts with the          *)
(* pre-unmount notification, makes only calls of enable (no pre-sync,      *)
(* backend set routine, network down/up, retry scheduling, DHCP/NAT setup, *)
(* post-sync, tethering, mode-setting-failed signal), returns 0 exactly    *)
(* when enable emitted data-in-use, and leaves the retry timer as it was.  *)
(***************************************************************************)
\* the calls mass-storage enable makes
IsEnableCall(e) ==
    \/ e.k \in { "mount_grep", "umount", "lsof", "unload_module", "modprobe", "nofua", "write" }
    \/ e.k = "state_signal" /\ e.a \in { USB_PRE_UNMOUNT, DATA_IN_USE }
    \/ e.k = "error_signal" /\ e.a \in { UMOUNT_ERROR, "blocking_process" }
    \/ e.k = "sleep" /\ e.a = "1s"

C15_MassStorageActivateOnlyEnables ==
    [][ (op' = "activate" /\ mode_data # NULL /\ Mode(mode_data).mass_storage # 0) =>
           /\ UNCHANGED << delayed_network, timers, next_id, removed >>
           /\ trace' # << >>
           /\ trace'[1] = Ev("state_signal", USB_PRE_UNMOUNT, NULL, 0)
           /\ \A i \in DOMAIN trace' : IsEnableCall(trace'[i])
           /\ ret' = 0 <=> \E i \in DOMAIN trace' :
                               trace'[i] = Ev("state_signal", DATA_IN_USE, NULL, 0)
      ]_vars

\* a mass-storage activate ran while a network retry was pending, and the
\* retry is still pending
C15_Witness ==
    /\ EnableRan
    /\ delayed_network # 0
    /\ timers # {}
    /\ Indexes("mount_grep") # {}

(***************************************************************************)
(* C16: for a descriptor with needs_appsync, a non-zero pre-sync result    *)
(* makes activate return failure at once: the pre-sync is the only call    *)
(* made (no backend write, network down/up, retry scheduling, DHCP/NAT     *)
(* setup, post-sync or tethering) and nothing of the engine's state        *)
(* changes.                                                                *)
(***************************************************************************)
C16_PreSyncFailureAborts ==
    [][ (op' = "activate" /\ mode_data # NULL /\ Mode(mode_data).mass_storage = 0
         /\ \E i \in DOMAIN trace' :
               trace'[i].k = "appsync_activate_sync" /\ trace'[i].rc # 0) =>
           /\ ret' # 0
           /\ trace' = << Ev("appsync_activate_sync", mode_data, NULL, trace'[1].rc) >>
           /\ UNCHANGED << delayed_network, timers, next_id, removed,
                           tracked_values, files >>
      ]_vars

\* the pre-sync of a network descriptor failed while a retry was pending
C16_Witness ==
    /\ op = "activate" /\ PreSyncAborted
    /\ mode_data # NULL /\ Mode(mode_data).network # 0
    /\ ret # 0 /\ Len(trace) = 1
    /\ timers # {}

(***************************************************************************)
(* C17: mass-storage enable emits the pre-unmount notification before any  *)
(* mounted-check or unmount command, and makes no gadget-programming write *)
(* (backing file, function list, enable, nofua) before every configured    *)
(* mount point has gone through the unmount step and the settle sleep that *)
(* follows the unmount step has elapsed.                                   *)
(***************************************************************************)
C17_EnableOrder ==
    EnableRan =>
        LET unmounting  == Indexes("mount_grep") \cup Indexes("umount")
            programming == Indexes("write") \cup Indexes("nofua")
        IN  /\ trace # << >>
            /\ trace[1] = Ev("state_signal", USB_PRE_UNMOUNT, NULL, 0)
            /\ \A w \in programming :
                  /\ \A i \in 1..Len(mounts) :
                        \E j \in Indexes("mount_grep") : j < w /\ trace[j].a = mounts[i]
                  /\ \A j \in unmounting : j < w
                  /\ \E sl \in Indexes("sleep") :
                        /\ sl < w
                        /\ \A j \in unmounting : j < sl

\* two mount points were unmounted, the first one at once, and the gadget was programmed
C17_Witness ==
    /\ EnableRan /\ Len(mounts) = 2 /\ ret = 0
    /\ Indexes("write") \cup Indexes("nofua") # {}
    /\ Cardinality(Indexes("umount")) = 2
    /\ Cardinality(Indexes("sleep")) = 1

(***************************************************************************)
(* C18: verify_all absorbs drift: after it, every entry the tracker holds  *)
(* equals the live value of its path (an unreadable path has no entry), so *)
(* that a second verify_all right after it logs nothing; and it reports no *)
(* error to its caller.  The code removes the entry of an unreadable path  *)
(* from the hash table while it iterates over it, which invalidates the    *)
(* iterator: the entries not yet visited can be left unverified.           *)
(***************************************************************************)
C18_VerifyAbsorbsDrift ==
    op = "verify" =>
        /\ \A p \in Paths :
              tracked_values.map[p] # NULL =>
                  tracked_values.map[p] = modesetting_read_from_file(Machine, p)
        /\ \A env \in VerifyEnvs : modesetting_verify_values(Machine, env).tr = << >>
        /\ ret = 0

(***************************************************************************)
(* C19: the tracker records exactly the successful writes: after           *)
(* write_to_file(path, text) with an initialized tracker, the tracker maps *)
(* path to the text written (the empty string when the function list was   *)
(* cleared) if the write succeeded, and is as it was before the call if    *)
(* the write failed.  The code records the text before it opens the file   *)
(* for writing, whenever the file can be read.                             *)
(***************************************************************************)
C19_TrackerRecordsSuccessfulWrites ==
    [][ (op' = "write" /\ tracked_values.init) =>
           IF ret' = 0
           THEN \A i \in DOMAIN trace' :
                   tracked_values'.map[trace'[i].a] = TrackedAs(trace'[i].a, trace'[i].b)
           ELSE tracked_values' = tracked_values
      ]_vars

(***************************************************************************)
(* C20: in mass-storage disable, a mount point found not mounted gets a    *)
(* mount command; when that fails, a read-only tmpfs is mounted at that    *)
(* same mount point and the remount-error signal is emitted; a mount point *)
(* found mounted gets no mount command and no error signal.  The code      *)
(* mounts the tmpfs at the configured alternate mount path, and mounts     *)
(* none when no alternate path is configured.                              *)
(***************************************************************************)
C20_RemountFallsBackToTmpfs ==
    op \in { "deactivate", "cleanup" } =>
        \A i \in Indexes("mount_grep") :
            IF trace[i].rc # 0
            THEN /\ i + 1 <= Len(trace)
                 /\ trace[i + 1].k = "mount" /\ trace[i + 1].a = trace[i].a
                 /\ trace[i + 1].rc # 0 =>
                       /\ i + 3 <= Len(trace)
                       /\ trace[i + 2].k = "mount_tmpfs" /\ trace[i + 2].a = trace[i].a
                       /\ trace[i + 3] = Ev("error_signal", RE_MOUNT_FAILED, NULL, 0)
            ELSE /\ \A j \in Indexes("mount") : trace[j].a # trace[i].a
                 /\ i + 1 <= Len(trace) => trace[i + 1].k \notin { "mount_tmpfs", "error_signal" }

(***************************************************************************)
(* C21: the loader returns a descriptor for a configuration file exactly   *)
(* when the file's fields satisfy the load invariants (name and module     *)
(* present; network implies network_interface; sysfs_path implies          *)
(* sysfs_value; sysfs_reset_value implies sysfs_path), so the loaded mode  *)
(* list holds one descriptor for each such file of the directory, with the *)
(* file's fields, and nothing else.                                        *)
(***************************************************************************)
LoadInvariants(f) ==
    /\ f.mode_name # NULL /\ f.mode_module # NULL
    /\ f.network # 0 => f.network_interface # NULL
    /\ f.sysfs_path # NULL => f.sysfs_value # NULL
    /\ f.sysfs_reset_value # NULL => f.sysfs_path # NULL

\* the fields of a file, or of a descriptor, the invariants are about
LoadFields(f) ==
    << f.mode_name, f.mode_module, f.network, f.network_interface,
       f.sysfs_path, f.sysfs_value, f.sysfs_reset_value >>

C21_LoaderReturnsIffInvariantsHold ==
    (op = "load" /\ trace[1].rc = 0) =>
        LET good == { i \in DOMAIN confdir : confdir[i].loads /\ LoadInvariants(confdir[i]) }
        IN  /\ \A j \in DOMAIN modelist : LoadInvariants(modelist[j])
            /\ Len(modelist) = Cardinality(good)
            /\ \A fields \in { LoadFields(confdir[i]) : i \in good } :
                  Cardinality({ j \in DOMAIN modelist : LoadFields(modelist[j]) = fields })
                      = Cardinality({ i \in good : LoadFields(confdir[i]) = fields })

\* one of two files was rejected for a reset value without a path
C21_Witness ==
    /\ op = "load" /\ Len(confdir) = 2 /\ Len(modelist) = 1
    /\ \E i \in DOMAIN confdir :
          /\ confdir[i].loads /\ confdir[i].mode_name # NULL /\ confdir[i].mode_module # NULL
          /\ confdir[i].sysfs_reset_value # NULL /\ confdir[i].sysfs_path = NULL
          /\ confdir[i].sysfs_value # NULL

C23_FailedWriteAbortsBackend ==
    BackendRan /\ backend = "android" =>
        LET data == Mode(mode_data)
        IN  \A i \in DOMAIN trace :
                (/\ WriteAt(i, data.android_extra_sysfs_path, data.android_extra_sysfs_value)
                 /\ trace[i].rc # 0) =>
                    /\ ret # 0
                    /\ \A j \in DOMAIN trace :
                          j > i =>
                              /\ trace[j].k \notin { "android_set_productid",
                                                     "android_set_vendorid" }
                              /\ ~WriteAt(j, data.sysfs_path, data.sysfs_value)
                              /\ ~WriteAt(j, data.android_extra_sysfs_path2,
                                          data.android_extra_sysfs_value2)

(***************************************************************************)
(* C24: with the configfs backend, activate makes, in this order, the UDC  *)
(* unbind, the product id, the vendor id, the function list from           *)
(* sysfs_value and the UDC bind; the vendor id is the descriptor's         *)
(* override when there is one and the platform default otherwise; and      *)
(* activate returns success exactly when the UDC bind succeeded, whatever  *)
(* the four steps before it answered.                                      *)
(***************************************************************************)
\* the calls of the configfs programming interface, in the order made
ConfigfsCalls ==
    SelectSeq(trace, LAMBDA e : e.k \in { "configfs_set_udc", "configfs_set_productid",
                                          "configfs_set_vendorid", "configfs_set_function" })

C24_ConfigfsOrderAndResult ==
    BackendRan /\ backend = "configfs" =>
        LET data  == Mode(mode_data)
            calls == ConfigfsCalls
        IN  /\ Len(calls) = 5
            /\ calls[1].k = "configfs_set_udc" /\ calls[1].a = "false"
            /\ calls[2].k = "configfs_set_productid" /\ calls[2].a = data.idProduct
            /\ calls[3].k = "configfs_set_vendorid"
            /\ calls[3].a = IF data.idVendorOverride # NULL
                            THEN data.idVendorOverride ELSE DefaultVendorId
            /\ calls[4].k = "configfs_set_function" /\ calls[4].a = data.sysfs_value
            /\ calls[5].k = "configfs_set_udc" /\ calls[5].a = "true"
            /\ ret = 0 <=> calls[5].rc = 0

\* a descriptor with a vendor id override was programmed; every step before
\* the bind failed, the bind succeeded
C24_Witness ==
    /\ BackendRan /\ backend = "configfs" /\ ret = 0
    /\ Mode(mode_data).idVendorOverride # NULL
    /\ Len(ConfigfsCalls) = 5
    /\ \A i \in 1..4 : ConfigfsCalls[i].rc # 0

(***************************************************************************)
(* C25: in activate the post-sync is invoked exactly when the backend set  *)
(* step succeeded and the descriptor has needs_appsync; the DHCP/NAT setup *)
(* is made exactly when has_nat or has_dhcp_server is set, also after a    *)
(* failed backend set step; and when both are made in one call the         *)
(* DHCP/NAT setup comes first.                                             *)
(***************************************************************************)
C25_PostSyncAndDhcpd ==
    BackendRan =>
        LET data  == Mode(mode_data)
            post  == Indexes("appsync_activate_sync_post")
            dhcpd == Indexes("network_set_up_dhcpd")
        IN  /\ Cardinality(post) = IF BackendResult = 0 /\ data.appsync # 0 THEN 1 ELSE 0
            /\ Cardinality(dhcpd) = IF data.nat # 0 \/ data.dhcp_server # 0 THEN 1 ELSE 0
            /\ \A i \in dhcpd, j \in post : i < j
            /\ \A j \in post : j > 1 /\ trace[j - 1] = Ev("sleep", "350ms", NULL, 0)

\* both were made in one call
C25_Witness ==
    /\ BackendRan /\ ret = 0
    /\ Indexes("appsync_activate_sync_post") # {}
    /\ Indexes("network_set_up_dhcpd") # {}

(***************************************************************************)
(* C26: mass-storage enable terminates: whatever the mount and unmount     *)
(* commands answer and however many mount points are configured, one call  *)
(* makes at most 4 failing umount attempts in total, and after the 4th it  *)
(* returns failure; the retry counter is not reset inside the call.        *)
(***************************************************************************)
FailedUmounts == { i \in Indexes("umount") : trace[i].rc # 0 }

C26_EnableTerminates ==
    EnableRan =>
        /\ Cardinality(FailedUmounts) <= UMOUNT_RETRIES + 1
        /\ Cardinality(Indexes("mount_grep")) <= Len(mounts) + UMOUNT_RETRIES
        /\ Cardinality(FailedUmounts) = UMOUNT_RETRIES + 1 =>
              /\ ret # 0
              /\ Signalled("error_signal", UMOUNT_ERROR)
              /\ \A i \in Indexes("mount_grep") \cup Indexes("umount") \cup Indexes("write") :
                    i <= CHOOSE j \in FailedUmounts : \A k \in FailedUmounts : k <= j
        /\ Cardinality(FailedUmounts) <= UMOUNT_RETRIES =>
              ~Signalled("error_signal", UMOUNT_ERROR)

\* the four failing attempts were spread over two mount points
C26_Witness ==
    /\ EnableRan /\ Len(mounts) = 2 /\ ret # 0
    /\ Cardinality(FailedUmounts) = UMOUNT_RETRIES + 1
    /\ \E i, j \in FailedUmounts : trace[i].a # trace[j].a

(***************************************************************************)
(* C27: a network retry that activate scheduled, and that no later         *)
(* activate replaced and no deactivate cancelled, eventually fires when    *)
(* the main loop dispatches due timers fairly; the callback clears the     *)
(* handle before it calls network bring-up and leaves no timer pending;    *)
(* and the handle is non-zero exactly while a timer is pending.            *)
(***************************************************************************)
SourceIds == 1..MaxSources

PendingSource(id) == \E t \in timers : t.id = id

FiredSource(id) == op = "retry" /\ trace[1].a = ToString(id)

C27_RetryEventuallyFires ==
    /\ [](delayed_network # 0 <=> timers # {})
    /\ [](op = "retry" =>
             /\ trace[2].k = "network_up" /\ trace[2].b = "0"
             /\ timers = {} /\ delayed_network = 0)
    /\ \A id \in SourceIds :
          PendingSource(id) ~> (FiredSource(id) \/ id \in removed)

\* a retry fired that nothing had cancelled, while its mode was no longer the active one
C27_Witness ==
    /\ op = "retry" /\ removed = {}
    /\ trace[2].k = "network_up" /\ trace[2].b = "0"
    /\ mode_data # trace[1].b

(***************************************************************************)
(* C28: after cleanup(module_name) has returned for a module name that is  *)
(* not NULL, no network retry timer is pending, on every path of cleanup.  *)
(* The code cancels the timer only in modesetting_unset_dynamic_mode(),    *)
(* which cleanup calls for a module other than the mass-storage ones and   *)
(* only while a descriptor is active.                                      *)
(***************************************************************************)
C28_CleanupLeavesNoRetry ==
    op = "cleanup" /\ Indexes("appsync_stop") # {} =>
        timers = {} /\ delayed_network = 0

====
